---- MODULE Spec2Model ----
(***************************************************************************)
(* Tronbyt Home Assistant integration: the vendor HTTP client (TronbytAPI), *)
(* the per-device poller (TronbytDataUpdateCoordinator), the light entity   *)
(* (TronbytLight), the validation step of the config flow, and the setup,   *)
(* unloading and service handlers of the config entries.                    *)
(*                                                                          *)
(* One device, DEVICE_ID, is followed through its poller and its light      *)
(* (specification Spec, and SpecUnload with the entry's unloading); the     *)
(* entries loaded in hass.data and the registered services are followed     *)
(* in specification SpecEntries.                                            *)
(* Python dicts and JSON objects are functions from keys to values, so that *)
(* dict.get(key, default) and a missing key are modelled as such.           *)
(* Every await on an HTTP call is a point where other tasks may run: a      *)
(* handler is split into one action per await.                              *)
(***************************************************************************)
EXTENDS Integers, Sequences, FiniteSets, TLC

VARIABLES
    srvDevices,      \* the vendor's device list (JSON objects), in list order
    data,            \* coordinator.data: the cached Status Snapshot
    poll,            \* the poller's refresh in flight
    refreshPending,  \* a refresh requested by async_request_refresh, not yet started
    cmd,             \* the command (turn_on, turn_off, set_power) in flight
    log,             \* what the current (or last) command did, in order
    track,           \* history: how far the last command's effect has got
    flow,            \* the config flow's last async_step_user, then the entry's life
    ncmds,           \* number of commands issued so far
    hassData,        \* hass.data[DOMAIN]: entry_id -> the entry's record
    services,        \* entry_id bound in the registered service handlers, 0 if none
    call,            \* the service call just made and what its handler did
    fetched          \* the get_devices() of the setup just run: answer and result

deviceVars == <<srvDevices, data, poll, refreshPending, cmd, log, track, flow, ncmds>>
hostVars == <<hassData, services, call, fetched>>
vars == <<deviceVars, hostVars>>

-----------------------------------------------------------------------------
(* Bounds *)

\* At most this many commands are issued in one behaviour.
MaxCommands == 2

-----------------------------------------------------------------------------
(* Values *)

\* Python None / JSON null, where an integer is expected.
Null == -1

DEVICE_ID == "d1"
OTHER_ID  == "d2"

\* dict.get(key, default)
Get(d, k, dflt) == IF k \in DOMAIN d THEN d[k] ELSE dflt

Max(a, b) == IF a >= b THEN a ELSE b

\* coordinator.data before the first refresh (None)
NoData == [none |-> TRUE]

\* No body / no response
NoBody == [none |-> TRUE]
NoResp == [status |-> 0, exc |-> "", json_ok |-> FALSE, body |-> NoBody]

-----------------------------------------------------------------------------
(* The vendor server *)

\* Brightness values the vendor side may set on its own (device menu, web UI).
VendorBrightness == {0, 200, Null}

OtherDevice == [id |-> OTHER_ID, displayName |-> "Desk", brightness |-> 10]

\* Entries the vendor may list for DEVICE_ID: without a brightness field, or
\* with one. (No entry carries autoDim here: auto_dim is then always the
\* default.)
VendorEntries ==
    LET base == [id |-> DEVICE_ID, displayName |-> "Lobby"]
    IN  {base} \cup {base @@ ("brightness" :> b) : b \in VendorBrightness}

RECURSIVE IndexOf(_, _, _)
\* First index >= i of an entry of devs whose id is device_id, 0 if none.
IndexOf(devs, device_id, i) ==
    IF i > Len(devs) THEN 0
    ELSE IF devs[i]["id"] = device_id THEN i
    ELSE IndexOf(devs, device_id, i + 1)

Listed(devs, device_id) == IndexOf(devs, device_id, 1) # 0

\* PATCH /v0/devices/{id} {"brightness": value}, applied by the vendor: the
\* entry's brightness becomes the value sent.
ServerPatch(devs, device_id, value) ==
    [i \in 1..Len(devs) |->
        IF devs[i]["id"] = device_id
        THEN [k \in DOMAIN devs[i] \cup {"brightness"} |->
                 IF k = "brightness" THEN value ELSE devs[i][k]]
        ELSE devs[i]]

-----------------------------------------------------------------------------
(* HTTP responses *)

HttpResp(status, body) == [status |-> status, exc |-> "", json_ok |-> TRUE, body |-> body]
\* HTTP 200 whose body is not JSON: response.json() raises
BadJson(status) == [status |-> status, exc |-> "", json_ok |-> FALSE, body |-> NoBody]
\* the transport raised (connection refused, timeout)
Raised(e) == [status |-> 0, exc |-> e, json_ok |-> FALSE, body |-> NoBody]

TransportErrors == {"ClientConnectorError", "TimeoutError"}

\* Answers to GET /v0/devices
ListResponses ==
    {HttpResp(200, [devices |-> srvDevices]), HttpResp(200, [other |-> TRUE]),
     BadJson(200), HttpResp(500, NoBody), HttpResp(401, NoBody)}
    \cup {Raised("ClientConnectorError")}

\* Answers to GET /v0/devices/{id}/installations
AppResponses ==
    {HttpResp(200, [installations |-> <<[appID |-> "clock"], [appID |-> "news"]>>]),
     HttpResp(200, [installations |-> <<[id |-> "i1"]>>]),
     HttpResp(200, [installations |-> <<>>]),
     HttpResp(200, [other |-> TRUE]),
     BadJson(200), HttpResp(500, NoBody)}
    \cup {Raised(e) : e \in TransportErrors}

-----------------------------------------------------------------------------
(* TronbytAPI *)

\* Mutant: a non-200 answer is reported as an app named "Unknown"
get_current_app_Non200Unknown(resp) ==
    IF resp.exc # "" THEN "None"
    ELSE IF resp.status = 200
         THEN IF ~resp.json_ok THEN "None"
              ELSE LET installations == Get(resp.body, "installations", <<>>)
                   IN  IF Len(installations) > 0
                       THEN Get(installations[1], "appID", "Unknown")
                       ELSE "None"
         ELSE "Unknown"

\* _get_current_app: the first installation's appID, None on any failure
get_current_app(resp) ==
    IF resp.exc # "" THEN "None"
    ELSE IF resp.status = 200
         THEN IF ~resp.json_ok THEN "None"
              ELSE LET installations == Get(resp.body, "installations", <<>>)
                   IN  IF Len(installations) > 0
                       THEN Get(installations[1], "appID", "Unknown")
                       ELSE "None"
         ELSE "None"

\* get_device_status has found the device and goes on to _get_current_app
FoundDevice(resp, device_id) ==
    /\ resp.exc = ""
    /\ resp.status = 200
    /\ resp.json_ok
    /\ Listed(Get(resp.body, "devices", <<>>), device_id)

\* Mutant: device.get("brightness") or 50
DeviceBrightness_OrDefault(device) ==
    IF "brightness" \notin DOMAIN device \/ device["brightness"] \in {0, Null}
    THEN 50
    ELSE device["brightness"]

\* device.get("brightness", 50)
DeviceBrightness(device) == Get(device, "brightness", 50)

\* The snapshots get_device_status returns
ConnectedStatus(device, appResp) ==
    [online |-> TRUE,
     status |-> "connected",
     brightness |-> DeviceBrightness(device),
     auto_dim |-> Get(device, "autoDim", FALSE),
     current_app |-> get_current_app(appResp)]

\* Mutant: a device that is not found stays online
NotFoundStatus_Online == [online |-> TRUE, status |-> "not_found"]

NotFoundStatus == [online |-> FALSE, status |-> "not_found"]

ApiErrorStatus == [online |-> FALSE, status |-> "api_error"]

ErrorStatus(e) == [online |-> FALSE, status |-> "error", error |-> e]

\* get_device_status, given the answer to the list call and (when the device
\* was found) the answer to the installations call
get_device_status(resp, appResp, device_id) ==
    IF resp.exc # ""
    THEN ErrorStatus(resp.exc)
    ELSE IF resp.status = 200
         THEN IF ~resp.json_ok
              THEN ErrorStatus("JSONDecodeError")
              ELSE LET devices == Get(resp.body, "devices", <<>>)
                       i == IndexOf(devices, device_id, 1)
                   IN  IF i # 0
                       THEN ConnectedStatus(devices[i], appResp)
                       ELSE NotFoundStatus
         ELSE ApiErrorStatus

\* test_connection: true only on HTTP 200
test_connection(resp) == resp.exc = "" /\ resp.status = 200

\* set_device_brightness's return value, given the answer to the PATCH
set_device_brightness(resp) ==
    IF resp.exc # "" THEN FALSE
    ELSE resp.status \in {200, 204}

\* set_device_power's brightness: "Default to 50% when turning on"
PowerOnBrightness == 50

set_device_power(state) == IF state THEN PowerOnBrightness ELSE 0

\* The record get_devices builds for one entry of the vendor's list
TransformedDevice(device) ==
    [id |-> device["id"],
     name |-> device["displayName"],
     brightness |-> Get(device, "brightness", 50),
     auto_dim |-> Get(device, "autoDim", FALSE),
     model |-> "Tronbyt Display",
     online |-> TRUE]

\* The entries of the body's "devices", none if the key is absent
ListedDevices(resp) == Get(resp.body, "devices", <<>>)

\* Mutant: entries that carry no brightness are left out
get_devices_SkipNoBrightness(resp) ==
    IF resp.exc # "" \/ resp.status # 200 \/ ~resp.json_ok THEN <<>>
    ELSE LET devices == SelectSeq(ListedDevices(resp),
                                  LAMBDA d : "brightness" \in DOMAIN d)
         IN  [i \in 1..Len(devices) |-> TransformedDevice(devices[i])]

\* get_devices, given the answer to GET /v0/devices: one record per entry, in
\* order; [] on a status other than 200 and on any exception
get_devices(resp) ==
    IF resp.exc # "" THEN <<>>
    ELSE IF resp.status = 200
    THEN IF ~resp.json_ok THEN <<>>
         ELSE LET devices == ListedDevices(resp)
              IN  [i \in 1..Len(devices) |-> TransformedDevice(devices[i])]
    ELSE <<>>

-----------------------------------------------------------------------------
(* TronbytConfigFlow *)

\* What the body of _test_connection's try block does: the exception it
\* raises ("" when it returns)
TryConnection(resp) ==
    IF resp.exc # "" THEN resp.exc
    ELSE IF resp.status = 401 THEN "InvalidAuth"
    ELSE IF resp.status # 200 THEN "CannotConnect"
    ELSE IF ~resp.json_ok THEN "JSONDecodeError"
    ELSE ""

\* _test_connection: the handlers `except aiohttp.ClientError` and
\* `except Exception` both raise CannotConnect, and InvalidAuth and
\* CannotConnect (HomeAssistantError) are Exceptions raised inside the try
config_test_connection(resp) ==
    LET inner == TryConnection(resp)
    IN  IF inner = ""
        THEN [raised |-> "",
              devices |-> LET devices == Get(resp.body, "devices", <<>>)
                          IN  [i \in 1..Len(devices) |->
                                  [id |-> devices[i]["id"],
                                   name |-> devices[i]["displayName"],
                                   brightness |-> DeviceBrightness(devices[i])]]]
        ELSE IF inner = "ClientConnectorError"
             THEN [raised |-> "CannotConnect", devices |-> <<>>]
             ELSE [raised |-> "CannotConnect", devices |-> <<>>]

\* async_step_user with a user_input: the step's outcome and errors["base"]
async_step_user(url_ok, resp, configured) ==
    IF ~url_ok
    THEN [result |-> "form", errors |-> "unknown", devices |-> <<>>]
    ELSE LET t == config_test_connection(resp)
         IN  IF t.raised = "CannotConnect"
             THEN [result |-> "form", errors |-> "cannot_connect", devices |-> <<>>]
             ELSE IF t.raised = "InvalidAuth"
             THEN [result |-> "form", errors |-> "invalid_auth", devices |-> <<>>]
             ELSE IF t.raised # ""
             THEN [result |-> "form", errors |-> "unknown", devices |-> <<>>]
             ELSE IF Len(t.devices) > 0
             THEN IF configured
                  THEN [result |-> "abort", errors |-> "none", devices |-> <<>>]
                  ELSE [result |-> "devices", errors |-> "none", devices |-> t.devices]
             ELSE [result |-> "form", errors |-> "no_devices", devices |-> <<>>]

-----------------------------------------------------------------------------
(* TronbytDataUpdateCoordinator *)

\* Mutant: the result is merged into the old snapshot
async_update_data_Merge(old, result) ==
    [k \in DOMAIN result \cup DOMAIN old |->
        IF k \in DOMAIN result THEN result[k] ELSE old[k]]

\* Mutant: once the snapshot is a failure, it stays
async_update_data_StickyFailure(old, result) ==
    IF old # NoData /\ old["status"] # "connected" THEN old ELSE result

\* _async_update_data's result becomes coordinator.data
async_update_data(old, result) == result

\* The poller: pc is "idle", "list" (awaiting GET /v0/devices) or "app" (the
\* device was found; awaiting GET .../installations); resp is the parsed
\* answer to the list call. History: fresh, the list was read after the last
\* command had been applied; last, how the last refresh went ("none" while
\* one is in flight); recovered, the last refresh found the device while the
\* snapshot it replaced was a failure.
Idle == [pc |-> "idle", resp |-> NoResp, fresh |-> FALSE, last |-> "none",
         recovered |-> FALSE]

\* The list call succeeded and its list does not hold the device
NotListed(resp, device_id) ==
    /\ resp.exc = "" /\ resp.status = 200 /\ resp.json_ok
    /\ "devices" \in DOMAIN resp.body
    /\ ~Listed(resp.body["devices"], device_id)

\* The current-app lookup failed: transport error, non-200, or no installation
AppLookupFailed(resp) ==
    \/ resp.exc # ""
    \/ resp.status # 200
    \/ ~resp.json_ok
    \/ Get(resp.body, "installations", <<>>) = <<>>

-----------------------------------------------------------------------------
(* TronbytLight *)

\* is_on: brightness > 0; comparing None with 0 raises TypeError
is_on(d) ==
    LET brightness == Get(d, "brightness", 0)
    IN  IF brightness = Null THEN "TypeError"
        ELSE IF brightness > 0 THEN "True" ELSE "False"

\* brightness: None when the snapshot's brightness is None
brightness(d) == Get(d, "brightness", 0)

\* available
available(d) == Get(d, "online", FALSE)

\* async_turn_on's default: "50% = 128"
DefaultBrightness == 128

\* Mutant: turn_on() raises the last known brightness by the default
turn_on_brightness_Cumulative(d, req) ==
    IF req # Null
    THEN Max(req, 1)
    ELSE LET current_brightness == Get(d, "brightness", 0)
         IN  IF current_brightness = Null THEN Null
             ELSE IF current_brightness + DefaultBrightness <= 255
                  THEN current_brightness + DefaultBrightness
                  ELSE 255

\* async_turn_on's api_brightness; req is Null when no brightness is given
turn_on_brightness(d, req) ==
    IF req # Null
    THEN Max(req, 1)
    ELSE LET current_brightness == Get(d, "brightness", 0)
         IN  IF current_brightness = 0 THEN DefaultBrightness ELSE current_brightness

\* Mutant: the refresh is requested whether or not the command succeeded
RequestsRefresh_Always(kind, success) == kind \in {"turn_on", "turn_off"}

\* Mutant: only async_turn_on requests the refresh
RequestsRefresh_OnlyTurnOn(kind, success) == kind = "turn_on" /\ success

\* async_turn_on / async_turn_off after set_device_brightness returned:
\* whether coordinator.async_request_refresh() is called
RequestsRefresh(kind, success) == kind \in {"turn_on", "turn_off"} /\ success

-----------------------------------------------------------------------------
(* State *)

\* A command: kind, its arguments (req, on), whether the light was on when it
\* was dispatched (was_on), the brightness it sends (value) and what
\* set_device_brightness returned (result)
NoCmd == [pc |-> "idle", kind |-> "none", req |-> Null, on |-> FALSE,
          was_on |-> FALSE, value |-> Null, result |-> FALSE]

\* History of the last command: stage is "sent", then "applied" once the
\* vendor has applied it and answered 2xx, then "refreshed" while the snapshot
\* is a connected one read after that with no change on the vendor side since;
\* again: the command is a turn_on() that followed a refreshed turn_on(), whose
\* brightness was prev.
NoTrack == [stage |-> "none", again |-> FALSE, prev |-> Null]
NoFlow == [status |-> 0, exc |-> "", url_ok |-> TRUE, result |-> "none",
           errors |-> "none", devices |-> <<>>]

Event(e, v) == [ev |-> e, val |-> v]

\* No service call yet. A call: the service (kind), the entry whose entity it
\* targets (entry), that entity's device (target) and id (entity_id), the
\* brightness or app_id given; then what the handler did: the client it used
\* (api, 0 if none), the device id and the brightness (value) or app it handed
\* to it, and the exception it raised (error).
NoCall == [kind |-> "none", entry |-> 0, target |-> "", entity_id |-> <<>>,
           brightness |-> Null, app_id |-> "", api |-> 0, device |-> <<>>,
           value |-> Null, app |-> "", error |-> ""]
NoFetch == [called |-> FALSE, resp |-> NoResp, result |-> <<>>]

\* Config entries followed, and the longest list the vendor answers with
MaxEntries == 2
MaxDevices == 2

Entries == 1..MaxEntries

\* hass.data[DOMAIN] has no key for the entry
NotLoaded == [api |-> 0, devices |-> <<>>]

LoadedEntries == {e \in Entries : hassData[e] # NotLoaded}

\* Nothing is loaded: hass.data[DOMAIN] = {} (async_setup), no service
InitHost ==
    /\ hassData = [e \in Entries |-> NotLoaded]
    /\ services = 0
    /\ call = NoCall
    /\ fetched = NoFetch

Init ==
    /\ srvDevices \in {<<OtherDevice, e>> : e \in VendorEntries}
    /\ data = NoData
    /\ poll = Idle
    /\ refreshPending = FALSE
    /\ cmd = NoCmd
    /\ log = <<>>
    /\ track = NoTrack
    /\ flow = NoFlow
    /\ ncmds = 0
    /\ InitHost

-----------------------------------------------------------------------------
(* The vendor side *)

\* The vendor's list changes on its own: the device is removed, added again,
\* or its entry is edited.
VendorChange ==
    /\ \E devs \in {<<OtherDevice>>} \cup {<<OtherDevice, e>> : e \in VendorEntries} :
          /\ devs # srvDevices
          /\ srvDevices' = devs
    /\ track' = NoTrack
    /\ poll' = [poll EXCEPT !.fresh = FALSE]
    /\ UNCHANGED <<data, refreshPending, cmd, log, flow, ncmds>>
    /\ UNCHANGED hostVars

-----------------------------------------------------------------------------
(* Configuration and setup *)

\* Answers to the config flow's GET /v0/devices
FlowResponses == ListResponses \cup {HttpResp(200, [devices |-> <<>>])}

\* async_step_user(user_input)
StepUser ==
    /\ flow.result \in {"none", "form"}
    /\ \E r \in FlowResponses, url_ok \in BOOLEAN, configured \in BOOLEAN :
          LET out == async_step_user(url_ok, r, configured)
          IN  flow' = [status |-> r.status, exc |-> r.exc, url_ok |-> url_ok,
                       result |-> out.result, errors |-> out.errors,
                       devices |-> [i \in 1..Len(out.devices) |-> out.devices[i]["id"]]]
    /\ UNCHANGED <<srvDevices, data, poll, refreshPending, cmd, log, track, ncmds>>
    /\ UNCHANGED hostVars

\* async_step_devices(user_input): the entry is created with the devices found
\* (flow.devices keeps their ids)
StepDevices ==
    /\ flow.result = "devices"
    /\ flow' = [flow EXCEPT !.result = "create_entry"]
    /\ UNCHANGED <<srvDevices, data, poll, refreshPending, cmd, log, track, ncmds>>
    /\ UNCHANGED hostVars

\* async_setup_entry up to the coordinator's first refresh: test_connection,
\* then a coordinator for each stored device
SetupEntry ==
    /\ flow.result = "create_entry"
    /\ \E i \in 1..Len(flow.devices) : flow.devices[i] = DEVICE_ID
    /\ \E r \in ListResponses :
          IF test_connection(r)
          THEN /\ flow' = [flow EXCEPT !.result = "setup"]
               /\ poll' = [Idle EXCEPT !.pc = "list"]
          ELSE UNCHANGED <<flow, poll>>
    /\ UNCHANGED <<srvDevices, data, refreshPending, cmd, log, track, ncmds>>
    /\ UNCHANGED hostVars

-----------------------------------------------------------------------------
(* The poller *)

\* A scheduled tick (every SCAN_INTERVAL) starts a refresh
TickStart ==
    /\ flow.result = "setup"
    /\ data # NoData
    /\ poll.pc = "idle"
    /\ poll' = [Idle EXCEPT !.pc = "list"]
    /\ UNCHANGED <<srvDevices, data, refreshPending, cmd, log, track, flow, ncmds>>
    /\ UNCHANGED hostVars

\* The refresh asked for by async_request_refresh starts
ForcedStart ==
    /\ refreshPending
    /\ poll.pc = "idle"
    /\ poll' = [Idle EXCEPT !.pc = "list"]
    /\ refreshPending' = FALSE
    /\ UNCHANGED <<srvDevices, data, cmd, log, track, flow, ncmds>>
    /\ UNCHANGED hostVars

\* get_device_status: the list call is answered
ListResp ==
    /\ poll.pc = "list"
    /\ \E r \in ListResponses :
          IF FoundDevice(r, DEVICE_ID)
          THEN /\ poll' = [pc |-> "app", resp |-> r, last |-> "none",
                           fresh |-> track.stage \in {"applied", "refreshed"},
                           recovered |-> FALSE]
               /\ UNCHANGED <<data, track>>
          ELSE /\ data' = async_update_data(data, get_device_status(r, NoResp, DEVICE_ID))
               /\ poll' = [Idle EXCEPT !.last = IF NotListed(r, DEVICE_ID)
                                                THEN "not_listed" ELSE "failed"]
               /\ track' = IF track.stage = "refreshed"
                             THEN [track EXCEPT !.stage = "applied"]
                             ELSE track
    /\ UNCHANGED <<srvDevices, refreshPending, cmd, log, flow, ncmds>>
    /\ UNCHANGED hostVars

\* get_device_status: the installations call is answered; the result is stored
AppResp ==
    /\ poll.pc = "app"
    /\ \E a \in AppResponses :
          /\ data' = async_update_data(data, get_device_status(poll.resp, a, DEVICE_ID))
          /\ poll' = [Idle EXCEPT !.last = IF AppLookupFailed(a)
                                           THEN "app_failed" ELSE "app_ok",
                                  !.recovered = (data # NoData /\
                                                 data["status"] # "connected")]
    /\ track' = IF poll.fresh /\ track.stage = "applied"
                  THEN [track EXCEPT !.stage = "refreshed"]
                  ELSE track
    /\ UNCHANGED <<srvDevices, refreshPending, cmd, log, flow, ncmds>>
    /\ UNCHANGED hostVars

-----------------------------------------------------------------------------
(* Commands *)

\* A command sends its PATCH
Dispatch(kind, req, on, value) ==
    /\ flow.result = "setup"
    /\ data # NoData
    /\ cmd.pc = "idle"
    /\ ncmds < MaxCommands
    /\ cmd' = [pc |-> "patch", kind |-> kind, req |-> req, on |-> on,
               was_on |-> is_on(data) = "True", value |-> value,
               result |-> FALSE]
    /\ log' = <<Event("patch", value)>>
    /\ ncmds' = ncmds + 1
    /\ poll' = [poll EXCEPT !.fresh = FALSE]
    /\ UNCHANGED <<srvDevices, data, refreshPending, flow>>
    /\ UNCHANGED hostVars

\* async_turn_on(brightness=req), req in 0..255, or async_turn_on()
RequestedBrightness == {Null, 0, 200}

TurnOn ==
    \E req \in RequestedBrightness :
        /\ Dispatch("turn_on", req, FALSE, turn_on_brightness(data, req))
        /\ LET again == /\ req = Null
                        /\ track.stage = "refreshed"
                        /\ cmd.kind = "turn_on" /\ cmd.req = Null
           IN  track' = [stage |-> "sent", again |-> again,
                         prev |-> IF again THEN cmd.value ELSE Null]

\* async_turn_off()
TurnOff ==
    /\ Dispatch("turn_off", Null, FALSE, 0)
    /\ track' = [NoTrack EXCEPT !.stage = "sent"]

\* set_device_power(device_id, state)
SetPower ==
    \E state \in BOOLEAN :
        /\ Dispatch("set_power", Null, state, set_device_power(state))
        /\ track' = [NoTrack EXCEPT !.stage = "sent"]

\* Answers to PATCH /v0/devices/{id}
PatchResponses ==
    {HttpResp(200, NoBody), HttpResp(204, NoBody), HttpResp(500, NoBody)}
    \cup {Raised(e) : e \in TransportErrors}

\* Whether the vendor may have applied a PATCH it answered with r: a 2xx answer
\* means applied, an error status or a refused connection means not applied,
\* and a timeout leaves both open.
MayApply(r, applied) ==
    /\ applied => Listed(srvDevices, DEVICE_ID)
    /\ (r.exc = "" /\ r.status \in {200, 204}) => applied
    /\ (r.exc = "" /\ r.status \notin {200, 204}) => ~applied
    /\ r.exc = "ClientConnectorError" => ~applied

\* The PATCH is answered: set_device_brightness returns, and the rest of
\* async_turn_on / async_turn_off runs
PatchResp ==
    /\ cmd.pc = "patch"
    /\ \E r \in PatchResponses, applied \in BOOLEAN :
          LET success == set_device_brightness(r)
              refresh == RequestsRefresh(cmd.kind, success)
          IN  /\ MayApply(r, applied)
              /\ srvDevices' = IF applied
                                THEN ServerPatch(srvDevices, DEVICE_ID, cmd.value)
                                ELSE srvDevices
              /\ cmd' = [cmd EXCEPT !.pc = "idle", !.result = success]
              /\ refreshPending' = (refreshPending \/ refresh)
              /\ log' = log \o <<Event("resp", r.status)>>
                             \o (IF refresh THEN <<Event("refresh", 0)>> ELSE <<>>)
              /\ track' = IF success /\ applied
                           THEN [track EXCEPT !.stage = "applied"]
                           ELSE NoTrack
    /\ UNCHANGED <<data, poll, flow, ncmds>>
    /\ UNCHANGED hostVars

-----------------------------------------------------------------------------
(* Config entries and services *)

\* Any list of up to MaxDevices entries, each with an id and a displayName,
\* with or without a brightness
VendorLists ==
    LET entries == {OtherDevice} \cup
                   {e \in VendorEntries : Get(e, "brightness", 200) = 200}
    IN  UNION {[1..n -> entries] : n \in 0..MaxDevices}

\* entry.data["devices"] as the config flow stored it: the entry's own device
StoredDevices(e) ==
    <<[id |-> IF e = 1 THEN DEVICE_ID ELSE OTHER_ID, name |-> "Stored",
       brightness |-> 50]>>

\* async_setup_entry, whole: test_connection, the stored devices or else
\* get_devices(), a coordinator per device (its first refresh cannot raise:
\* get_device_status returns a snapshot on every path), the entry's record in
\* hass.data[DOMAIN], the platforms, and async_setup_services, which registers
\* the handlers bound to this entry_id only if no service is registered yet.
\* The client of entry e is named e.
LoadEntry(e) ==
    /\ hassData[e] = NotLoaded
    /\ \E r \in ListResponses, stored \in BOOLEAN :
       \E r2 \in IF test_connection(r) /\ ~stored THEN ListResponses ELSE {NoResp} :
          LET devices == IF stored THEN StoredDevices(e) ELSE get_devices(r2)
              ok == test_connection(r) /\ devices # <<>>
          IN  /\ fetched' = IF test_connection(r) /\ ~stored
                             THEN [called |-> TRUE, resp |-> r2,
                                   result |-> get_devices(r2)]
                             ELSE NoFetch
              /\ hassData' =
                    IF ok
                    THEN [hassData EXCEPT ![e] =
                            [api |-> e,
                             devices |-> [i \in 1..Len(devices) |-> devices[i]["id"]]]]
                    ELSE hassData
              /\ services' = IF ok /\ services = 0 THEN e ELSE services
    /\ call' = NoCall
    /\ UNCHANGED deviceVars

\* async_unload_entry: once the platforms are unloaded, the entry's record is
\* popped, and the services are removed if no record is left
UnloadEntry(e) ==
    /\ hassData[e] # NotLoaded
    /\ \E unload_ok \in BOOLEAN :
          IF unload_ok
          THEN /\ hassData' = [hassData EXCEPT ![e] = NotLoaded]
               /\ services' = IF LoadedEntries = {e} THEN 0 ELSE services
          ELSE UNCHANGED <<hassData, services>>
    /\ call' = NoCall
    /\ fetched' = NoFetch
    /\ UNCHANGED deviceVars

\* Entity ids, as the pieces the handlers look for: the id built like the
\* light's unique id (tronbyt_{device_id}_light), and an id built from the
\* device's name
EntityId(device_id) == <<"light.tronbyt_", device_id, "_light">>
NamedEntityId == <<"light.", "lobby">>

\* entity_id and entity_id.startswith("light.tronbyt_")
MatchesEntity(entity_id) == Len(entity_id) > 0 /\ entity_id[1] = "light.tronbyt_"

\* entity_id.replace("light.tronbyt_", "").replace("_light", "")
ExtractDeviceId(entity_id) ==
    SelectSeq(entity_id, LAMBDA t : t \notin {"light.tronbyt_", "_light"})

\* What a handler does once its condition holds: hass.data[DOMAIN][entry_id]
\* with the entry_id it was registered with, then that record's client
Delegate(entity_id, value, app_id) ==
    IF hassData[services] = NotLoaded
    THEN [api |-> 0, device |-> <<>>, value |-> Null, app |-> "",
          error |-> "KeyError"]
    ELSE [api |-> hassData[services].api, device |-> ExtractDeviceId(entity_id),
          value |-> value, app |-> app_id, error |-> ""]

NotDelegated == [api |-> 0, device |-> <<>>, value |-> Null, app |-> "", error |-> ""]

\* handle_set_brightness: the brightness goes to set_device_brightness as given
handle_set_brightness(entity_id, value) ==
    IF MatchesEntity(entity_id)
    THEN Delegate(entity_id, value, "")
    ELSE NotDelegated

\* handle_set_app
handle_set_app(entity_id, app_id) ==
    IF MatchesEntity(entity_id) /\ app_id # ""
    THEN Delegate(entity_id, Null, app_id)
    ELSE NotDelegated

\* Values of the service's brightness field, vol.Range(min=0, max=100)
ServiceBrightness == {0, 50, 100}

\* A call of a registered service names an entity of a loaded entry
ServiceCall(kind, value, app_id) ==
    /\ \E e \in LoadedEntries, named \in BOOLEAN :
          \E i \in 1..Len(hassData[e].devices) :
             LET target == hassData[e].devices[i]
                 entity_id == IF named THEN NamedEntityId ELSE EntityId(target)
                 done == IF kind = "set_brightness"
                         THEN handle_set_brightness(entity_id, value)
                         ELSE handle_set_app(entity_id, app_id)
             IN  call' = [kind |-> kind, entry |-> e, target |-> target,
                          entity_id |-> entity_id, brightness |-> value,
                          app_id |-> app_id, api |-> done.api,
                          device |-> done.device, value |-> done.value,
                          app |-> done.app, error |-> done.error]
    /\ fetched' = NoFetch
    /\ UNCHANGED <<hassData, services>>
    /\ UNCHANGED deviceVars

\* tronbyt.set_brightness is called
CallSetBrightness ==
    /\ services # 0
    /\ \E b \in ServiceBrightness : ServiceCall("set_brightness", b, "")

\* tronbyt.set_app is called
CallSetApp ==
    /\ services # 0
    /\ \E a \in {"clock", ""} : ServiceCall("set_app", Null, a)

InitEntries ==
    /\ srvDevices \in VendorLists
    /\ data = NoData
    /\ poll = Idle
    /\ refreshPending = FALSE
    /\ cmd = NoCmd
    /\ log = <<>>
    /\ track = NoTrack
    /\ flow = NoFlow
    /\ ncmds = 0
    /\ InitHost

NextEntries ==
    \/ \E e \in Entries : LoadEntry(e)
    \/ \E e \in Entries : UnloadEntry(e)
    \/ CallSetBrightness
    \/ CallSetApp

SpecEntries == InitEntries /\ [][NextEntries]_vars

-----------------------------------------------------------------------------

Next ==
    \/ VendorChange
    \/ StepUser
    \/ StepDevices
    \/ SetupEntry
    \/ TickStart
    \/ ForcedStart
    \/ ListResp
    \/ AppResp
    \/ TurnOn
    \/ TurnOff
    \/ SetPower
    \/ PatchResp

Spec == Init /\ [][Next]_vars

-----------------------------------------------------------------------------
(* Unloading *)

\* async_unload_entry, seen from the device, once its setup is complete: the
\* platforms are unloaded, so the light is gone (no command is dispatched any
\* more, and the coordinator, left without a listener, schedules no tick), and
\* the entry's record is popped. async_unload_entry does not cancel or shut
\* down the coordinators: whether the host drops a refresh that is in flight
\* or pending is left open (cancelled), and a command in flight runs on.
Unload ==
    /\ flow.result = "setup"
    /\ data # NoData
    /\ flow' = [flow EXCEPT !.result = "unloaded"]
    /\ \E cancelled \in BOOLEAN :
          /\ poll' = IF cancelled THEN Idle ELSE poll
          /\ refreshPending' = IF cancelled THEN FALSE ELSE refreshPending
    /\ UNCHANGED <<srvDevices, data, cmd, log, track, ncmds>>
    /\ UNCHANGED hostVars

NextUnload == Next \/ Unload

SpecUnload == Init /\ [][NextUnload]_vars

-----------------------------------------------------------------------------
(* Properties *)

\* C1: when the PATCH of a turn_on or turn_off is answered with a status other
\* than 200/204 or the transport fails, set_device_brightness returns false and
\* the command ends there: the snapshot stays as it was, no refresh is requested
\* or started, and the command's log is its one PATCH and that answer (no retry).
C1_FailedCommandLeavesSnapshot ==
    [][ ( /\ cmd.pc = "patch" /\ cmd'.pc = "idle"
          /\ cmd.kind \in {"turn_on", "turn_off"}
          /\ log'[2].val \notin {200, 204} )
        => /\ cmd'.result = FALSE
           /\ data' = data
           /\ refreshPending' = refreshPending
           /\ poll' = poll
           /\ log' = <<Event("patch", cmd.value), Event("resp", log'[2].val)>>
           /\ ncmds' = ncmds ]_vars

\* A turn_on or turn_off answered with HTTP 500 has returned, the device being
\* connected in the snapshot.
C1_Witness ==
    /\ cmd.pc = "idle" /\ cmd.kind \in {"turn_on", "turn_off"}
    /\ Len(log) = 2 /\ log[2] = Event("resp", 500)
    /\ ~cmd.result
    /\ Get(data, "status", "") = "connected"

\* C2: a turn_off has sent exactly one PATCH with brightness 0 and nothing else
\* while it awaits the answer, and once the vendor has accepted it the command
\* has done, in this order: that PATCH, the 2xx answer, one refresh request.
C2_TurnOffOnePatchThenOneRefresh ==
    cmd.kind = "turn_off" =>
        /\ cmd.pc = "patch" => log = <<Event("patch", 0)>>
        /\ (cmd.pc = "idle" /\ cmd.result) =>
              /\ Len(log) = 3
              /\ log[1] = Event("patch", 0)
              /\ log[2].ev = "resp" /\ log[2].val \in {200, 204}
              /\ log[3] = Event("refresh", 0)

\* A turn_off dispatched while the snapshot's brightness was non-zero has been
\* accepted by the vendor.
C2_Witness ==
    /\ cmd.kind = "turn_off" /\ cmd.was_on
    /\ cmd.pc = "idle" /\ cmd.result
    /\ Len(log) = 3

\* C3 (as claimed): every PATCH sent by turn_on carries an integer brightness of
\* at least 1.
C3_TurnOnAtLeastOne ==
    (cmd.kind = "turn_on" /\ cmd.pc = "patch") =>
        (cmd.value # Null /\ cmd.value >= 1)

\* C4: turn_on() without a brightness sends the snapshot's brightness when that
\* is not 0 and the default when it is 0 (or the snapshot has none); a turn_on()
\* that follows a turn_on() which the vendor applied and the poller refreshed
\* sends the same brightness again, and the refreshed snapshot shows it.
C4_TurnOnDefaultIdempotent ==
    [][ /\ ( /\ cmd.pc = "idle" /\ cmd'.pc = "patch"
             /\ cmd'.kind = "turn_on" /\ cmd'.req = Null )
           => /\ cmd'.value = IF Get(data, "brightness", 0) = 0
                               THEN DefaultBrightness
                               ELSE data["brightness"]
              /\ track'.again => cmd'.value = track'.prev
        /\ ( /\ cmd'.kind = "turn_on" /\ cmd'.req = Null
             /\ track'.stage = "refreshed" )
           => brightness(data') = cmd'.value ]_vars

\* The second of two turn_on() in a row, the first of which sent the default,
\* has been applied and refreshed.
C4_Witness ==
    /\ cmd.kind = "turn_on" /\ cmd.req = Null
    /\ track.again /\ track.stage = "refreshed"
    /\ track.prev = DefaultBrightness

\* C5 (as claimed): set_power(on) sends the default brightness of turn_on, which
\* is 50% of the 0-255 scale, and set_power(off) sends 0.
C5_SetPowerUsesDefault ==
    cmd.kind = "set_power" =>
        cmd.value = IF cmd.on THEN DefaultBrightness ELSE 0

\* C6: a snapshot whose status is not connected is not online, and available()
\* is true exactly when the status is connected.
C6_NotConnectedNotOnline ==
    data # NoData =>
        /\ data["status"] # "connected" => data["online"] = FALSE
        /\ available(data) <=> data["status"] = "connected"

\* A refresh of a device that was on has ended with the device not listed.
C6_Witness ==
    /\ data # NoData /\ data["status"] = "not_found"
    /\ poll.last = "not_listed"
    /\ cmd.was_on

\* C7: after a refresh whose list call succeeded without the device in the
\* list, the snapshot is exactly {online: false, status: not_found}: nothing of
\* an earlier snapshot is kept.
C7_NotListedReplacesSnapshot ==
    poll.last = "not_listed" =>
        data = [online |-> FALSE, status |-> "not_found"]

\* The device is not listed any more after a command that saw it on (its
\* snapshot then was a connected one with a brightness).
C7_Witness ==
    /\ poll.last = "not_listed"
    /\ cmd.was_on /\ cmd.pc = "idle"

\* C8: once get_device_status has found the device, every failing answer to the
\* current-app lookup gives the connected snapshot with the device's brightness
\* and current_app None, and that is the snapshot stored.
C8_AppLookupFailureSwallowed ==
    /\ poll.pc = "app" =>
          \A a \in AppResponses :
              AppLookupFailed(a) =>
                  LET devices == poll.resp.body["devices"]
                      device == devices[IndexOf(devices, DEVICE_ID, 1)]
                  IN  get_device_status(poll.resp, a, DEVICE_ID) =
                          [online |-> TRUE, status |-> "connected",
                           brightness |-> Get(device, "brightness", 50),
                           auto_dim |-> Get(device, "autoDim", FALSE),
                           current_app |-> "None"]
    /\ poll.last = "app_failed" =>
          /\ data["status"] = "connected" /\ data["online"] = TRUE
          /\ "brightness" \in DOMAIN data
          /\ data["current_app"] = "None"

\* A refresh whose current-app lookup failed has been stored.
C8_Witness ==
    /\ poll.last = "app_failed"
    /\ data["status"] = "connected"

\* C9 (as claimed): an HTTP 401 answer to the validation call gives the error
\* invalid_auth, and no other answer does.
C9_AuthFailureDistinct ==
    (flow.result = "form" /\ flow.url_ok) =>
        (flow.errors = "invalid_auth" <=> (flow.exc = "" /\ flow.status = 401))

\* C10: once a command that sent brightness 0 has been applied by the vendor
\* and the poller has stored a snapshot read after that, the snapshot is
\* connected with brightness 0: is_on is false, brightness is 0, and the light
\* is available.
C10_ZeroBrightnessReadBack ==
    (cmd.value = 0 /\ track.stage = "refreshed") =>
        /\ data["status"] = "connected"
        /\ data["brightness"] = 0
        /\ is_on(data) = "False"
        /\ brightness(data) = 0
        /\ available(data)

\* A turn_off of a light that was on has been applied and read back.
C10_Witness ==
    /\ cmd.kind = "turn_off" /\ cmd.was_on
    /\ track.stage = "refreshed"
    /\ Get(data, "brightness", 50) = 0

\* C11: when the vendor answers get_devices with HTTP 200 and a list of N
\* entries, the result has exactly N records, the i-th with the i-th entry's id
\* and its displayName as name; and the result is empty only when N = 0 or the
\* call failed (an exception, a status other than 200, a body that is not
\* JSON).
C11_ListDevicesKeepsEveryEntry ==
    fetched.called =>
        LET resp == fetched.resp
            failed == resp.exc # "" \/ resp.status # 200 \/ ~resp.json_ok
            entries == ListedDevices(resp)
        IN  /\ ~failed =>
                  /\ Len(fetched.result) = Len(entries)
                  /\ \A i \in 1..Len(entries) :
                        /\ fetched.result[i]["id"] = entries[i]["id"]
                        /\ fetched.result[i]["name"] = entries[i]["displayName"]
            /\ fetched.result = <<>> => (failed \/ Len(entries) = 0)

\* A setup has fetched a list of two entries, one of them without a
\* brightness, and got two records.
C11_Witness ==
    /\ fetched.called
    /\ fetched.resp.exc = "" /\ fetched.resp.status = 200 /\ fetched.resp.json_ok
    /\ Len(ListedDevices(fetched.resp)) = 2
    /\ \E i \in 1..2 : "brightness" \notin DOMAIN ListedDevices(fetched.resp)[i]
    /\ Len(fetched.result) = 2

\* C12 (as claimed): the brightness a set_brightness call hands to the client
\* is the call's 0-100 brightness converted to the 0-255 scale: 100 becomes
\* 255, 0 stays 0, and a value in between becomes a larger number.
C12_ServiceBrightnessConverted ==
    (call.kind = "set_brightness" /\ call.api # 0) =>
        /\ call.brightness = 100 => call.value = 255
        /\ call.brightness = 0 => call.value = 0
        /\ (0 < call.brightness /\ call.brightness < 100) =>
              call.value > call.brightness

\* C13: the poller never gets stuck and a failure never outlives the next
\* good answer: a refresh in flight can always complete, an idle poller of a
\* loaded entry can always start the next tick, every stored snapshot carries
\* one of the four statuses, and a refresh that found the device listed with
\* HTTP 200 leaves a connected, online, available snapshot whatever the
\* snapshot before it was.
C13_PollerRecovers ==
    /\ poll.pc = "list" => ENABLED ListResp
    /\ poll.pc = "app" => ENABLED AppResp
    /\ (poll.pc = "idle" /\ data # NoData /\ flow.result = "setup") => ENABLED TickStart
    /\ data # NoData =>
          data["status"] \in {"connected", "not_found", "api_error", "error"}
    /\ poll.last \in {"app_ok", "app_failed"} =>
          /\ data["status"] = "connected"
          /\ data["online"]
          /\ available(data)

\* A refresh has found the device after a failed one, and the snapshot is
\* connected again.
C13_Witness ==
    /\ poll.pc = "idle" /\ poll.recovered
    /\ poll.last = "app_ok"
    /\ data["status"] = "connected" /\ available(data)

\* C14 (as claimed): once the entry is unloaded, the device's snapshot never
\* changes again, whatever refresh or command was in flight at the unload.
C14_NoUpdateAfterUnload ==
    [][flow.result = "unloaded" => data' = data]_vars

\* C15 (as claimed): the services are registered exactly while some entry is
\* loaded, and a call that names an entity of a loaded entry (by the id the
\* handlers parse, with an app_id for set_app) raises nothing and reaches that
\* entry's own client with that entity's device id.
C15_ServicesFollowEntries ==
    /\ services # 0 <=> LoadedEntries # {}
    /\ ( /\ call.kind # "none"
         /\ call.entity_id = EntityId(call.target)
         /\ call.kind = "set_app" => call.app_id # "" )
       => /\ call.error = ""
          /\ call.api = call.entry
          /\ call.device = <<call.target>>

====
